---- MODULE Spec2Model ----
(***************************************************************************)
(* SPSCQueue<T, Allocator> of src/lib/SPSCQueue.h: a single producer,      *)
(* single consumer ring buffer.  One producer thread runs emplace and      *)
(* try_emplace, one consumer thread runs front and pop, either of them may *)
(* call size() and empty() between its own operations, and the destructor  *)
(* runs once both threads are quiescent.  Every access to an atomic cursor *)
(* of the other side is a step of its own; atomics are sequentially        *)
(* consistent in this model.                                               *)
(***************************************************************************)
EXTENDS Integers, Sequences, FiniteSets, TLC

(* ------------------------------ bounds --------------------------------- *)

\* Largest capacity passed to the constructor (0 .. MaxRequested).
MaxRequested == 3

\* Most slots an allocate_at_least allocator hands out beyond the request.
MaxSurplus == 1

\* Number of successful inserts the producer performs.
MaxPush == 5

\* Width of size_t and ptrdiff_t in the model (64 in the build).
SizeBits == 8

(* ----------------------- constants of the class ------------------------ *)

_cacheLineSize == 64

\* sizeof(T) of the element type the repository instantiates (int).
sizeofT == 4

_padding == (_cacheLineSize - 1) \div sizeofT + 1

SIZE_MAX == 2^SizeBits - 1

\* size_t arithmetic: results are reduced modulo 2^SizeBits.
WrapSize(n) == n % (2^SizeBits)

\* Conversion of a size_t bit pattern to ptrdiff_t (two's complement).
ToPtrdiff(n) == IF WrapSize(n) >= 2^(SizeBits - 1) THEN WrapSize(n) - 2^SizeBits ELSE WrapSize(n)

(* ----------------------------- constructor ----------------------------- *)

\* _capacity as the constructor leaves it before allocating.
CtorCapacity(cap) ==
    LET c1 == IF cap < 1 THEN 1 ELSE cap
        c2 == WrapSize(c1 + 1)
    IN  IF c2 > SIZE_MAX - 2 * _padding THEN SIZE_MAX - 2 * _padding ELSE c2

\* Slot counts the allocator may return for a request of n slots: exactly n
\* from allocate, n or more from allocate_at_least.
AllocCounts(n) == { k \in n .. n + MaxSurplus : k <= SIZE_MAX }

(* -------------------------------- state -------------------------------- *)

VARIABLES
    requested,          \* the constructor's argument
    _capacity,          \* ring size (logical capacity plus the slack slot)
    mem,                \* _slots: the value stored at each address
    live,               \* _slots: whether the address holds a constructed T
    _writeIndex,
    _readIndex,
    _writeIndexCache,
    _readIndexCache,
    ppc,                \* producer: position in emplace / try_emplace
    pArg,               \* producer: the value being inserted
    pWriteIndex,        \* producer: local writeIndex
    pNext,              \* producer: local nextWriteIndex
    tryResult,          \* producer: what the last try_emplace returned
    cpc,                \* consumer: position in front / pop
    cReadIndex,         \* consumer: local readIndex
    cFront,             \* consumer: what front() returned, << >> for nullptr
    cVal,               \* consumer: value read through the pointer, << >> if none
    qpc,                \* size() / empty(): position
    qCaller,            \* size() / empty(): the calling thread
    qFirst,             \* size() / empty(): the cursor loaded first
    qLoaded,            \* size() / empty(): the value of the first load
    qRet,               \* size() / empty(): the value returned
    qSeen,              \* history: the true sizes since the call in flight began
    phase,              \* "unconstructed", "live", "destructing", "destroyed", "aborted"
    pushed,             \* history: values inserted, in publication order
    popped,             \* history: values the consumer took, in removal order
    nPopped,            \* history: pop() calls that published readIndex
    nConstructed,       \* history: placement-new calls
    nDestroyed,         \* history: destructor calls on elements
    fault               \* history: undefined behaviour and failed assertions

shared == <<_capacity, mem, live, _writeIndex, _readIndex, _writeIndexCache, _readIndexCache>>
pvars == <<ppc, pArg, pWriteIndex, pNext, tryResult>>
cvars == <<cpc, cReadIndex, cFront, cVal>>
qvars == <<qpc, qCaller, qFirst, qLoaded, qRet, qSeen>>
hvars == <<pushed, popped, nPopped, nConstructed, nDestroyed, fault>>
vars == <<requested, shared, pvars, cvars, qvars, phase, hvars>>

\* Published elements that no pop() has published the removal of.
Pending == Len(pushed) - nPopped

\* A change of the number of elements is noted for the size() or empty() call
\* that is between its two loads.
Observe == qSeen' = IF qpc \in {"size", "empty"} THEN qSeen \cup {Pending'} ELSE qSeen

\* The addresses of the allocation: _padding slots, the ring, _padding slots.
Addresses == 0 .. _capacity + 2 * _padding - 1

\* capacity(): _capacity - 1 in size_t.
capacity == WrapSize(_capacity - 1)

\* NextIndex wrapping one slot early, as if the ring had no slack slot.
NextIndexEarly(i) == IF i + 1 >= _capacity - 1 THEN 0 ELSE i + 1

\* The wrapping increment both cursors use.
NextIndex(i) == IF i + 1 = _capacity THEN 0 ELSE i + 1

Init ==
    /\ requested \in 0 .. MaxRequested
    /\ \E count \in AllocCounts(CtorCapacity(requested) + 2 * _padding) :
          _capacity = count - 2 * _padding
    /\ mem = [a \in Addresses |-> 0]
    /\ live = [a \in Addresses |-> FALSE]
    /\ _writeIndex = 0
    /\ _readIndex = 0
    /\ _writeIndexCache = 0
    /\ _readIndexCache = 0
    /\ ppc = "idle" /\ pArg = 0 /\ pWriteIndex = 0 /\ pNext = 0 /\ tryResult = "none"
    /\ cpc = "idle" /\ cReadIndex = 0 /\ cFront = << >> /\ cVal = << >>
    /\ qpc = "idle" /\ qCaller = "none" /\ qFirst = "none" /\ qLoaded = 0 /\ qRet = << >>
    /\ qSeen = {}
    /\ phase = "live"
    /\ pushed = << >> /\ popped = << >> /\ nPopped = 0
    /\ nConstructed = 0 /\ nDestroyed = 0
    /\ fault = {}

\* The constructor on its own, for every argument of the size type. Before it
\* runs _capacity holds the argument (the member initialiser) and nothing is
\* allocated.
CtorInit ==
    /\ requested \in 0 .. SIZE_MAX
    /\ phase = "unconstructed"
    /\ _capacity = requested
    /\ mem = << >>
    /\ live = << >>
    /\ _writeIndex = 0
    /\ _readIndex = 0
    /\ _writeIndexCache = 0
    /\ _readIndexCache = 0
    /\ ppc = "idle" /\ pArg = 0 /\ pWriteIndex = 0 /\ pNext = 0 /\ tryResult = "none"
    /\ cpc = "idle" /\ cReadIndex = 0 /\ cFront = << >> /\ cVal = << >>
    /\ qpc = "idle" /\ qCaller = "none" /\ qFirst = "none" /\ qLoaded = 0 /\ qRet = << >>
    /\ qSeen = {}
    /\ pushed = << >> /\ popped = << >> /\ nPopped = 0
    /\ nConstructed = 0 /\ nDestroyed = 0
    /\ fault = {}

\* The body of the constructor: coerce, add the slack slot, clamp, allocate.
Ctor ==
    /\ phase = "unconstructed"
    /\ \E count \in AllocCounts(CtorCapacity(_capacity) + 2 * _padding) :
          /\ _capacity' = count - 2 * _padding
          /\ mem' = [a \in 0 .. count - 1 |-> 0]
          /\ live' = [a \in 0 .. count - 1 |-> FALSE]
    /\ phase' = "live"
    /\ UNCHANGED <<requested, _writeIndex, _readIndex, _writeIndexCache, _readIndexCache,
                   pvars, cvars, qvars, hvars>>

CtorSpec == CtorInit /\ [][Ctor]_vars

(* ------------------------- placement new, ~T() -------------------------- *)

\* new (&_slots[a]) T(v): constructing over a live element is a fault.
Construct(a, v) ==
    /\ mem' = [mem EXCEPT ![a] = v]
    /\ live' = [live EXCEPT ![a] = TRUE]
    /\ nConstructed' = nConstructed + 1
    /\ fault' = IF live[a] THEN fault \cup {"construct over live element"} ELSE fault

\* The destructor of a T that wipes its value.
DestroyScrubbing(a) ==
    /\ live' = [live EXCEPT ![a] = FALSE]
    /\ nDestroyed' = nDestroyed + 1
    /\ fault' = IF live[a] THEN fault ELSE fault \cup {"destroy of no element"}
    /\ mem' = [mem EXCEPT ![a] = -1]

\* _slots[a].~T(): destroying what is not a live element is a fault.
Destroy(a) ==
    /\ live' = [live EXCEPT ![a] = FALSE]
    /\ nDestroyed' = nDestroyed + 1
    /\ fault' = IF live[a] THEN fault ELSE fault \cup {"destroy of no element"}
    /\ UNCHANGED mem

(* ------------------------------- producer ------------------------------ *)

ProducerMayCall == phase = "live" /\ ppc = "idle" /\ qCaller # "producer"

\* The value of the next insert: the producer sends 1, 2, 3, ..., as the
\* producer of src/main/spscqueue.cpp does; a value refused by try_emplace is
\* offered again. The queue never inspects a value, and distinct values make
\* a lost, repeated or reordered element visible.
NextValue == Len(pushed) + 1

\* emplace, up to the loop: load writeIndex, compute nextWriteIndex.
EmplaceBegin ==
    /\ ProducerMayCall
    /\ Len(pushed) < MaxPush
    /\ pArg' = NextValue
    /\ pWriteIndex' = _writeIndex
    /\ pNext' = NextIndex(_writeIndex)
    /\ ppc' = "emplace_wait"
    /\ tryResult' = "none"
    /\ UNCHANGED <<requested, shared, cvars, qvars, phase, hvars>>

\* EmplaceSpin testing the cached read index over and over, never reloading.
EmplaceSpinNoReload ==
    /\ ppc = "emplace_wait"
    /\ pNext = _readIndexCache
    /\ UNCHANGED vars

\* One iteration of the while loop of emplace: the queue looks full, reload.
EmplaceSpin ==
    /\ ppc = "emplace_wait"
    /\ pNext = _readIndexCache
    /\ _readIndexCache' = _readIndex
    /\ UNCHANGED <<requested, _capacity, mem, live, _writeIndex, _readIndex, _writeIndexCache,
                   pvars, cvars, qvars, phase, hvars>>

\* EmplaceConstruct without the wait for a free slot.
EmplaceConstructUnguarded ==
    /\ ppc = "emplace_wait"
    /\ Construct(pWriteIndex + _padding, pArg)
    /\ ppc' = "emplace_publish"
    /\ UNCHANGED <<requested, _capacity, _writeIndex, _readIndex, _writeIndexCache, _readIndexCache,
                   pArg, pWriteIndex, pNext, tryResult, cvars, qvars, phase, pushed, popped, nPopped, nDestroyed>>

\* The loop of emplace exits and the element is constructed in its slot.
EmplaceConstruct ==
    /\ ppc = "emplace_wait"
    /\ pNext # _readIndexCache
    /\ Construct(pWriteIndex + _padding, pArg)
    /\ ppc' = "emplace_publish"
    /\ UNCHANGED <<requested, _capacity, _writeIndex, _readIndex, _writeIndexCache, _readIndexCache,
                   pArg, pWriteIndex, pNext, tryResult, cvars, qvars, phase, pushed, popped, nPopped, nDestroyed>>

\* _writeIndex.store(nextWriteIndex, release); emplace returns.
EmplacePublish ==
    /\ ppc = "emplace_publish"
    /\ _writeIndex' = pNext
    /\ pushed' = Append(pushed, pArg)
    /\ ppc' = "idle"
    /\ UNCHANGED <<requested, _capacity, mem, live, _readIndex, _writeIndexCache, _readIndexCache,
                   pArg, pWriteIndex, pNext, tryResult, cvars, qpc, qCaller, qFirst, qLoaded, qRet, phase,
                   popped, nPopped, nConstructed, nDestroyed, fault>>
    /\ Observe

\* try_emplace, up to the test: load writeIndex, compute nextWriteIndex.
TryEmplaceBegin ==
    /\ ProducerMayCall
    /\ Len(pushed) < MaxPush
    /\ pArg' = NextValue
    /\ pWriteIndex' = _writeIndex
    /\ pNext' = NextIndex(_writeIndex)
    /\ ppc' = "try_check"
    /\ tryResult' = "none"
    /\ UNCHANGED <<requested, shared, cvars, qvars, phase, hvars>>

\* TryEmplaceCheck returning false after the reload without the second test.
TryEmplaceCheckNoRecheck ==
    /\ ppc = "try_check"
    /\ IF pNext = _readIndexCache
          THEN /\ _readIndexCache' = _readIndex
               /\ ppc' = "idle"
               /\ tryResult' = "false"
          ELSE /\ ppc' = "try_construct"
               /\ UNCHANGED <<_readIndexCache, tryResult>>
    /\ UNCHANGED <<requested, _capacity, mem, live, _writeIndex, _readIndex, _writeIndexCache,
                   pArg, pWriteIndex, pNext, cvars, qvars, phase, hvars>>

\* TryEmplaceCheck constructing the element before it finds the queue full.
TryEmplaceCheckEager ==
    /\ ppc = "try_check"
    /\ IF pNext = _readIndexCache /\ pNext = _readIndex
          THEN /\ Construct(pWriteIndex + _padding, pArg)
               /\ ppc' = "idle"
               /\ tryResult' = "false"
               /\ UNCHANGED _readIndexCache
          ELSE /\ _readIndexCache' = IF pNext = _readIndexCache THEN _readIndex ELSE _readIndexCache
               /\ ppc' = "try_construct"
               /\ UNCHANGED <<tryResult, mem, live, nConstructed, fault>>
    /\ UNCHANGED <<requested, _capacity, _writeIndex, _readIndex, _writeIndexCache,
                   pArg, pWriteIndex, pNext, cvars, qvars, phase, pushed, popped, nPopped, nDestroyed>>

\* TryEmplaceCheck trying again, as emplace does, instead of returning false.
TryEmplaceCheckRetry ==
    /\ ppc = "try_check"
    /\ IF pNext = _readIndexCache
          THEN /\ _readIndexCache' = _readIndex
               /\ ppc' = IF pNext = _readIndex THEN "try_check" ELSE "try_construct"
          ELSE /\ ppc' = "try_construct"
               /\ UNCHANGED _readIndexCache
    /\ UNCHANGED <<requested, _capacity, mem, live, _writeIndex, _readIndex, _writeIndexCache,
                   pArg, pWriteIndex, pNext, tryResult, cvars, qvars, phase, hvars>>

\* TryEmplaceCheck testing writeIndex where nextWriteIndex is meant.
TryEmplaceCheckOffByOne ==
    /\ ppc = "try_check"
    /\ IF pWriteIndex = _readIndexCache
          THEN /\ _readIndexCache' = _readIndex
               /\ IF pWriteIndex = _readIndex
                     THEN ppc' = "idle" /\ tryResult' = "false"
                     ELSE ppc' = "try_construct" /\ tryResult' = tryResult
          ELSE /\ ppc' = "try_construct"
               /\ UNCHANGED <<_readIndexCache, tryResult>>
    /\ UNCHANGED <<requested, _capacity, mem, live, _writeIndex, _readIndex, _writeIndexCache,
                   pArg, pWriteIndex, pNext, cvars, qvars, phase, hvars>>

\* The full test of try_emplace: the cached read index, then one reload.
TryEmplaceCheck ==
    /\ ppc = "try_check"
    /\ IF pNext = _readIndexCache
          THEN /\ _readIndexCache' = _readIndex
               /\ IF pNext = _readIndex
                     THEN ppc' = "idle" /\ tryResult' = "false"
                     ELSE ppc' = "try_construct" /\ tryResult' = tryResult
          ELSE /\ ppc' = "try_construct"
               /\ UNCHANGED <<_readIndexCache, tryResult>>
    /\ UNCHANGED <<requested, _capacity, mem, live, _writeIndex, _readIndex, _writeIndexCache,
                   pArg, pWriteIndex, pNext, cvars, qvars, phase, hvars>>

TryEmplaceConstruct ==
    /\ ppc = "try_construct"
    /\ Construct(pWriteIndex + _padding, pArg)
    /\ ppc' = "try_publish"
    /\ UNCHANGED <<requested, _capacity, _writeIndex, _readIndex, _writeIndexCache, _readIndexCache,
                   pArg, pWriteIndex, pNext, tryResult, cvars, qvars, phase, pushed, popped, nPopped, nDestroyed>>

\* _writeIndex.store(nextWriteIndex, release); return true.
TryEmplacePublish ==
    /\ ppc = "try_publish"
    /\ _writeIndex' = pNext
    /\ pushed' = Append(pushed, pArg)
    /\ ppc' = "idle"
    /\ tryResult' = "true"
    /\ UNCHANGED <<requested, _capacity, mem, live, _readIndex, _writeIndexCache, _readIndexCache,
                   pArg, pWriteIndex, pNext, cvars, qpc, qCaller, qFirst, qLoaded, qRet, phase,
                   popped, nPopped, nConstructed, nDestroyed, fault>>
    /\ Observe

Producer ==
    \/ EmplaceBegin \/ EmplaceSpin \/ EmplaceConstruct \/ EmplacePublish
    \/ TryEmplaceBegin \/ TryEmplaceCheck \/ TryEmplaceConstruct \/ TryEmplacePublish

(* ------------------------------- consumer ------------------------------ *)

\* The thread running front and pop: the consumer, or the destructor's loop.
ConsumerMayCall == cpc \in {"idle", "peeked"} /\ qCaller # "consumer"

\* front(): the relaxed load of the consumer's own cursor.
FrontBegin ==
    /\ ConsumerMayCall
    /\ \/ phase = "live"
       \/ phase = "destructing" /\ cpc = "idle"
    /\ cReadIndex' = _readIndex
    /\ cpc' = "front_check"
    /\ cFront' = << >>
    /\ cVal' = << >>
    /\ UNCHANGED <<requested, shared, pvars, qvars, phase, hvars>>

\* FrontCheck returning &_slots[readIndex], the padding offset forgotten.
FrontCheckNoPadding ==
    /\ cpc = "front_check"
    /\ IF cReadIndex = _writeIndexCache
          THEN /\ _writeIndexCache' = _writeIndex
               /\ cFront' = IF _writeIndex = cReadIndex THEN << >> ELSE <<cReadIndex>>
          ELSE /\ cFront' = <<cReadIndex>>
               /\ UNCHANGED _writeIndexCache
    /\ cpc' = "peeked"
    /\ UNCHANGED <<requested, _capacity, mem, live, _writeIndex, _readIndex, _readIndexCache,
                   pvars, cReadIndex, cVal, qvars, phase, hvars>>

\* FrontCheck without the reload: the cached write index alone decides.
FrontCheckNoRefresh ==
    /\ cpc = "front_check"
    /\ cFront' = IF cReadIndex = _writeIndexCache THEN << >> ELSE <<cReadIndex + _padding>>
    /\ cpc' = "peeked"
    /\ UNCHANGED <<requested, shared, pvars, cReadIndex, cVal, qvars, phase, hvars>>

\* FrontCheck with the test after the reload left out: every reload is
\* taken to have found an element.
FrontCheckNoRecheck ==
    /\ cpc = "front_check"
    /\ IF cReadIndex = _writeIndexCache
          THEN _writeIndexCache' = _writeIndex
          ELSE UNCHANGED _writeIndexCache
    /\ cFront' = <<cReadIndex + _padding>>
    /\ cpc' = "peeked"
    /\ UNCHANGED <<requested, _capacity, mem, live, _writeIndex, _readIndex, _readIndexCache,
                   pvars, cReadIndex, cVal, qvars, phase, hvars>>

\* The empty test of front: the cached write index, then one reload.
FrontCheck ==
    /\ cpc = "front_check"
    /\ IF cReadIndex = _writeIndexCache
          THEN /\ _writeIndexCache' = _writeIndex
               /\ cFront' = IF _writeIndex = cReadIndex THEN << >> ELSE <<cReadIndex + _padding>>
          ELSE /\ cFront' = <<cReadIndex + _padding>>
               /\ UNCHANGED _writeIndexCache
    /\ cpc' = "peeked"
    /\ UNCHANGED <<requested, _capacity, mem, live, _writeIndex, _readIndex, _readIndexCache,
                   pvars, cReadIndex, cVal, qvars, phase, hvars>>

\* The consumer reads the element through the pointer front() returned.
Deref ==
    /\ phase = "live"
    /\ ConsumerMayCall
    /\ cpc = "peeked"
    /\ cFront # << >>
    /\ cVal' = <<mem[cFront[1]]>>
    /\ fault' = IF live[cFront[1]] THEN fault ELSE fault \cup {"read of no element"}
    /\ UNCHANGED <<requested, shared, pvars, cpc, cReadIndex, cFront, qvars, phase,
                   pushed, popped, nPopped, nConstructed, nDestroyed>>

\* pop(), called after front() returned an element: load readIndex, assert.
PopBegin ==
    /\ ConsumerMayCall
    /\ cpc = "peeked"
    /\ cFront # << >>
    /\ phase = "live" => cVal # << >>
    /\ phase \in {"live", "destructing"}
    /\ cReadIndex' = _readIndex
    /\ fault' = IF _writeIndex # _readIndex THEN fault ELSE fault \cup {"assertion of pop"}
    /\ cpc' = "pop_destroy"
    /\ UNCHANGED <<requested, shared, pvars, cFront, cVal, qvars, phase,
                   pushed, popped, nPopped, nConstructed, nDestroyed>>

\* A pop() that leaves the element alone and only moves the cursor.
PopDestroyOmitted ==
    /\ cpc = "pop_destroy"
    /\ cpc' = "pop_publish"
    /\ UNCHANGED <<requested, shared, pvars, cReadIndex, cFront, cVal, qvars, phase, hvars>>

\* _slots[readIndex + _padding].~T()
PopDestroy ==
    /\ cpc = "pop_destroy"
    /\ Destroy(cReadIndex + _padding)
    /\ cpc' = "pop_publish"
    /\ UNCHANGED <<requested, _capacity, _writeIndex, _readIndex, _writeIndexCache, _readIndexCache,
                   pvars, cReadIndex, cFront, cVal, qvars, phase, pushed, popped, nPopped, nConstructed>>

\* _readIndex.store(nextReadIndex, release); pop returns.
PopPublish ==
    /\ cpc = "pop_publish"
    /\ _readIndex' = NextIndex(cReadIndex)
    /\ popped' = IF phase = "live" THEN popped \o cVal ELSE popped
    /\ nPopped' = nPopped + 1
    /\ cpc' = "idle"
    /\ cFront' = << >>
    /\ cVal' = << >>
    /\ UNCHANGED <<requested, _capacity, mem, live, _writeIndex, _writeIndexCache, _readIndexCache,
                   pvars, cReadIndex, qpc, qCaller, qFirst, qLoaded, qRet, phase, pushed, nConstructed, nDestroyed, fault>>
    /\ Observe

Consumer == FrontBegin \/ FrontCheck \/ Deref \/ PopBegin \/ PopDestroy \/ PopPublish

(* --------------------------- size(), empty() ---------------------------- *)

\* A caller that is any thread, running beside both role threads.
QuiescentAnyThread(caller) == caller \in {"producer", "consumer"}

\* The thread named has no operation of its own in progress.
Quiescent(caller) ==
    \/ caller = "producer" /\ ppc = "idle"
    \/ caller = "consumer" /\ cpc \in {"idle", "peeked"}

Cursor(which) == IF which = "write" THEN _writeIndex ELSE _readIndex

\* SizeResult without the correction of a negative difference.
SizeResultNoAdjust(w, r) == WrapSize(ToPtrdiff(w - r))

\* The value size() computes from the two loaded cursors.
SizeResult(w, r) ==
    LET diff == ToPtrdiff(w - r)
        adj == IF diff < 0 THEN ToPtrdiff(WrapSize(diff) + _capacity) ELSE diff
    IN  WrapSize(adj)

\* size() or empty() is called and loads one cursor; the order in which the
\* two operands are evaluated is the compiler's choice.
QueryBegin(op, caller, first) ==
    /\ phase = "live"
    /\ qpc = "idle"
    /\ Quiescent(caller)
    /\ qpc' = op
    /\ qCaller' = caller
    /\ qFirst' = first
    /\ qLoaded' = Cursor(first)
    /\ qRet' = << >>
    /\ qSeen' = {Pending}
    /\ UNCHANGED <<requested, shared, pvars, cvars, phase, hvars>>

SizeBegin == \E caller \in {"producer", "consumer"}, first \in {"write", "read"} :
                 QueryBegin("size", caller, first)

EmptyBegin == \E caller \in {"producer", "consumer"}, first \in {"write", "read"} :
                  QueryBegin("empty", caller, first)

\* A size() that keeps the write index it loaded in the consumer's cache.
SizeFinishRefreshing ==
    /\ qpc = "size"
    /\ LET w == IF qFirst = "write" THEN qLoaded ELSE _writeIndex
           r == IF qFirst = "read" THEN qLoaded ELSE _readIndex
       IN  /\ qRet' = <<SizeResult(w, r)>>
           /\ _writeIndexCache' = w
    /\ qpc' = "size_return"
    /\ UNCHANGED <<requested, _capacity, mem, live, _writeIndex, _readIndex, _readIndexCache,
                   pvars, cvars, qCaller, qFirst, qLoaded, qSeen, phase, hvars>>

\* size() loads the other cursor and computes its result.
SizeFinish ==
    /\ qpc = "size"
    /\ LET w == IF qFirst = "write" THEN qLoaded ELSE _writeIndex
           r == IF qFirst = "read" THEN qLoaded ELSE _readIndex
       IN  qRet' = <<SizeResult(w, r)>>
    /\ qpc' = "size_return"
    /\ UNCHANGED <<requested, shared, pvars, cvars, qCaller, qFirst, qLoaded, qSeen, phase, hvars>>

\* empty() loads the other cursor and compares.
EmptyFinish ==
    /\ qpc = "empty"
    /\ LET w == IF qFirst = "write" THEN qLoaded ELSE _writeIndex
           r == IF qFirst = "read" THEN qLoaded ELSE _readIndex
       IN  qRet' = <<w = r>>
    /\ qpc' = "empty_return"
    /\ UNCHANGED <<requested, shared, pvars, cvars, qCaller, qFirst, qLoaded, qSeen, phase, hvars>>

\* The caller takes the result and goes on.
QueryReturn ==
    /\ qpc \in {"size_return", "empty_return"}
    /\ qpc' = "idle"
    /\ qCaller' = "none"
    /\ qFirst' = "none"
    /\ qLoaded' = 0
    /\ qRet' = << >>
    /\ qSeen' = {}
    /\ UNCHANGED <<requested, shared, pvars, cvars, phase, hvars>>

Query == SizeBegin \/ EmptyBegin \/ SizeFinish \/ EmptyFinish \/ QueryReturn

(* ------------------------------ destructor ------------------------------ *)

\* ~SPSCQueue() starts once no thread uses the queue any more.
DtorBegin ==
    /\ phase = "live"
    /\ ppc = "idle"
    /\ cpc \in {"idle", "peeked"}
    /\ qpc = "idle"
    /\ phase' = "destructing"
    /\ cpc' = "idle"
    /\ cFront' = << >>
    /\ cVal' = << >>
    /\ UNCHANGED <<requested, shared, pvars, cReadIndex, qvars, hvars>>

\* while (front()) ends: front() returned nullptr.
DtorEnd ==
    /\ phase = "destructing"
    /\ cpc = "peeked"
    /\ cFront = << >>
    /\ phase' = "destroyed"
    /\ UNCHANGED <<requested, shared, pvars, cvars, qvars, hvars>>

Destructor == DtorBegin \/ DtorEnd

(* ----------------------------- specification ---------------------------- *)

Next == Producer \/ Consumer \/ Query \/ Destructor

Spec == Init /\ [][Next]_vars

\* pop() called against its contract, with no element returned by a front()
\* before it: load readIndex, assert. The assertion exists in a build without
\* NDEBUG, where its failure aborts the program; where it holds the pop goes
\* on, and the broken contract is recorded.
PopWithoutPeek ==
    /\ ConsumerMayCall
    /\ phase = "live"
    /\ ~(cpc = "peeked" /\ cFront # << >>)
    /\ cReadIndex' = _readIndex
    /\ IF _writeIndex # _readIndex
          THEN /\ cpc' = "pop_destroy"
               /\ fault' = fault \cup {"pop without front"}
               /\ UNCHANGED phase
          ELSE /\ fault' = fault \cup {"assertion of pop"}
               /\ phase' = "aborted"
               /\ UNCHANGED cpc
    /\ UNCHANGED <<requested, shared, pvars, cFront, cVal, qvars,
                   pushed, popped, nPopped, nConstructed, nDestroyed>>

\* The queue with a consumer that may break the contract of pop(), up to the
\* first time it does: what the program does after that is undefined.
MisuseNext == (fault = {} /\ Next) \/ PopWithoutPeek

MisuseSpec == Init /\ [][MisuseNext]_vars

\* A thread that is inside an operation keeps being scheduled.
ProducerRuns == EmplaceSpin \/ EmplaceConstruct \/ EmplacePublish
                   \/ TryEmplaceCheck \/ TryEmplaceConstruct \/ TryEmplacePublish

ConsumerRuns == FrontCheck \/ PopDestroy \/ PopPublish

FairSpec == Spec /\ WF_vars(ProducerRuns) /\ WF_vars(ConsumerRuns)

(* ---------------------- src/main/spscqueue.cpp ------------------------- *)

\* SPSCQueue<int> q{10} and the ten iterations of producer().
DemoCapacity == 10
DemoPushes == 10

DemoInit ==
    /\ requested = DemoCapacity
    /\ \E count \in AllocCounts(CtorCapacity(requested) + 2 * _padding) :
          _capacity = count - 2 * _padding
    /\ mem = [a \in Addresses |-> 0]
    /\ live = [a \in Addresses |-> FALSE]
    /\ _writeIndex = 0
    /\ _readIndex = 0
    /\ _writeIndexCache = 0
    /\ _readIndexCache = 0
    /\ ppc = "idle" /\ pArg = 0 /\ pWriteIndex = 0 /\ pNext = 0 /\ tryResult = "none"
    /\ cpc = "idle" /\ cReadIndex = 0 /\ cFront = << >> /\ cVal = << >>
    /\ qpc = "idle" /\ qCaller = "none" /\ qFirst = "none" /\ qLoaded = 0 /\ qRet = << >>
    /\ qSeen = {}
    /\ phase = "live"
    /\ pushed = << >> /\ popped = << >> /\ nPopped = 0
    /\ nConstructed = 0 /\ nDestroyed = 0
    /\ fault = {}

\* producer(): q.push(i) for i = 0 .. 9; push(const T &) is emplace(t).
DemoPush ==
    /\ ppc = "idle"
    /\ Len(pushed) < DemoPushes
    /\ pArg' = Len(pushed)
    /\ pWriteIndex' = _writeIndex
    /\ pNext' = NextIndex(_writeIndex)
    /\ ppc' = "emplace_wait"
    /\ tryResult' = "none"
    /\ UNCHANGED <<requested, shared, cvars, qvars, phase, hvars>>

\* consumer(): const int *i = q.front(), at the top of the loop.
DemoFront ==
    /\ cpc = "idle" \/ (cpc = "peeked" /\ cFront = << >>)
    /\ FrontBegin

\* consumer(): if (i) q.pop(), up to the assertion of pop().
DemoPopBegin ==
    /\ cpc = "peeked"
    /\ cFront # << >>
    /\ cReadIndex' = _readIndex
    /\ fault' = IF _writeIndex # _readIndex THEN fault ELSE fault \cup {"assertion of pop"}
    /\ cpc' = "pop_destroy"
    /\ UNCHANGED <<requested, shared, pvars, cFront, cVal, qvars, phase,
                   pushed, popped, nPopped, nConstructed, nDestroyed>>

\* The store of pop(); the consumer still holds the pointer i.
DemoPopPublish ==
    /\ cpc = "pop_publish"
    /\ _readIndex' = NextIndex(cReadIndex)
    /\ nPopped' = nPopped + 1
    /\ cpc' = "demo_read"
    /\ UNCHANGED <<requested, _capacity, mem, live, _writeIndex, _writeIndexCache, _readIndexCache,
                   pvars, cReadIndex, cFront, cVal, qvars, phase,
                   pushed, popped, nConstructed, nDestroyed, fault>>

\* consumer(): std::cout << "Pop " << *i, after the pop(). The element was
\* destroyed by pop(); ~T() of an int leaves the storage as it was, so the
\* read gives what the slot holds.
DemoRead ==
    /\ cpc = "demo_read"
    /\ popped' = Append(popped, mem[cFront[1]])
    /\ fault' = IF live[cFront[1]] THEN fault ELSE fault \cup {"read of no element"}
    /\ cpc' = "idle"
    /\ cFront' = << >>
    /\ cVal' = << >>
    /\ UNCHANGED <<requested, shared, pvars, cReadIndex, qvars, phase,
                   pushed, nPopped, nConstructed, nDestroyed>>

\* The two threads of main(). The loop of emplace never finds the queue full
\* here (C20_DemoState), so it has no iteration to take.
DemoNext ==
    \/ DemoPush \/ EmplaceConstruct \/ EmplacePublish
    \/ DemoFront \/ FrontCheck \/ DemoPopBegin \/ PopDestroy \/ DemoPopPublish \/ DemoRead

DemoSpec == DemoInit /\ [][DemoNext]_vars

(* ------------------------------ properties ------------------------------ *)

\* Addresses holding a constructed element.
LiveCount == Cardinality({a \in Addresses : live[a]})

\* s is an initial part of t.
IsPrefix(s, t) == Len(s) <= Len(t) /\ \A i \in 1 .. Len(s) : s[i] = t[i]

\* C1: FIFO without loss or duplication. The values the consumer has taken by
\* front() followed by pop() are a prefix of the values inserted, in the same
\* order, and the value it reads through a peeked pointer is the oldest value
\* not yet removed; so once it has taken as many values as were inserted it
\* has each of them exactly once.
C1_Fifo ==
    /\ IsPrefix(popped, pushed)
    /\ (phase = "live" /\ cVal # << >>) =>
           /\ Len(popped) < Len(pushed)
           /\ cVal[1] = pushed[Len(popped) + 1]
    /\ Len(popped) = Len(pushed) => popped = pushed

\* The consumer has taken every value of a stream that went round the ring.
C1_Witness ==
    /\ phase = "live"
    /\ Len(popped) > _capacity
    /\ popped = pushed
    /\ capacity >= 2

\* C2: capacity invariant. At most capacity() elements are live and at most
\* capacity() are pending, and writeIndex equals readIndex only when no
\* published element is pending.
C2_CapacityBound ==
    /\ LiveCount <= capacity
    /\ Pending >= 0
    /\ Pending <= capacity
    /\ _writeIndex = _readIndex => Pending = 0

\* The ring is full after wrapping, with the producer waiting in emplace.
C2_Witness ==
    /\ LiveCount = capacity
    /\ Pending = capacity
    /\ _writeIndex < _readIndex
    /\ ppc = "emplace_wait"
    /\ capacity >= 2

\* C3: empty/full boundary. Before anything is inserted empty() returns true
\* and front() returns nullptr; while nothing has been removed, a try_emplace
\* returns true only as one of the first capacity() inserts and false only
\* once capacity() elements are in (so the first capacity() calls succeed
\* and the next one fails).
C3_Boundary ==
    /\ (qpc = "empty_return" /\ pushed = << >>) => qRet = <<TRUE>>
    /\ (cpc = "peeked" /\ pushed = << >>) => cFront = << >>
    /\ (nDestroyed = 0 /\ tryResult = "true") => Len(pushed) <= capacity
    /\ (nDestroyed = 0 /\ tryResult = "false") => Len(pushed) = capacity
    /\ (nDestroyed = 0 /\ ppc \in {"try_construct", "try_publish"}) => Len(pushed) < capacity

\* try_emplace has just failed on a queue filled by capacity() inserts, none
\* removed, and front() sees the first of them.
C3_Witness ==
    /\ nDestroyed = 0
    /\ tryResult = "false"
    /\ Len(pushed) = capacity
    /\ capacity >= 2
    /\ cpc = "peeked" /\ cFront = <<_padding>>

\* What holds in each state of the scenario of the recovery from full.
C4_AfterFull ==
    /\ (phase = "live" /\ cpc = "peeked" /\ cFront # << >> /\ nPopped = 0) =>
           /\ cFront = <<_padding>>
           /\ live[cFront[1]]
           /\ mem[cFront[1]] = pushed[1]
    /\ (phase = "live" /\ nPopped = Len(pushed)) => popped = [i \in 1 .. Len(pushed) |-> i]
    /\ (qpc = "empty_return" /\ qCaller = "consumer" /\ Pending = 0) => qRet = <<TRUE>>

\* The test of the try_emplace that follows the first pop() of a full queue.
C4_TryAfterPop ==
    (/\ ppc = "try_check"
     /\ ppc' # "try_check"
     /\ Len(pushed) = capacity
     /\ nPopped = 1)
        => (/\ ppc' = "try_construct"
            /\ pWriteIndex = capacity
            /\ pNext = 0)

\* C4: recovery from full across the wraparound. Once capacity() inserts have
\* filled the queue, front() returns the oldest value; after one pop() the
\* next try_emplace succeeds when it makes its test, stale cached read index
\* or not; the drained values are the inserted ones in insertion order, the
\* one stored after the wrap included, and empty() called by the consumer
\* once everything is removed returns true.
C4_RecoveryFromFull == []C4_AfterFull /\ [][C4_TryAfterPop]_vars

\* The spec's instance: capacity 3, values 1, 2, 3 inserted, 1 removed, and
\* try_emplace(4) has passed its test after reloading the read index.
C4_Witness ==
    /\ capacity = 3
    /\ pushed = <<1, 2, 3>>
    /\ popped = <<1>>
    /\ cpc = "idle"
    /\ ppc = "try_construct"
    /\ pArg = 4
    /\ pNext = 0
    /\ _readIndexCache = 1

\* C5: every value size() returns lies in 0 .. capacity(), whichever cursor it
\* loads first and whatever the other thread does between the two loads.
C5_SizeBound == qpc = "size_return" => (qRet[1] >= 0 /\ qRet[1] <= capacity)

\* size() returns capacity() although the cursors it combined were loaded at
\* different moments and the queue is empty when it returns.
C5_Witness ==
    /\ qpc = "size_return"
    /\ capacity >= 2
    /\ qRet[1] = capacity
    /\ Pending = 0

\* C6: the destructor drains exactly. No destructor call ever hits a slot that
\* holds no element, no element is constructed over a live one, constructions
\* equal destructions plus live elements at every moment, and when the
\* destructor is done nothing is live: every construction has its one
\* destruction.
C6_DestructorDrains ==
    /\ "destroy of no element" \notin fault
    /\ "construct over live element" \notin fault
    /\ nConstructed = nDestroyed + LiveCount
    /\ phase = "destroyed" =>
           /\ LiveCount = 0
           /\ nDestroyed = nConstructed
           /\ _readIndex = _writeIndex

\* The destructor has run on a queue holding fewer than capacity() elements,
\* after the consumer removed some, and destroyed the two or more left.
C6_Witness ==
    /\ phase = "destroyed"
    /\ nPopped - Len(popped) >= 2
    /\ Len(popped) >= 1
    /\ Len(pushed) - Len(popped) < capacity

\* What each step of a try_emplace call satisfies.
C7_TryStep ==
    /\ (ppc = "try_check" /\ tryResult' = "false") =>
           (Pending = capacity /\ pNext = _readIndex)
    /\ (ppc = "try_check" /\ Pending < capacity) =>
           /\ Pending' < capacity
           /\ ppc' \in {"try_check", "try_construct"}
    /\ (ppc = "try_construct") => ppc' \in {"try_construct", "try_publish"}
    /\ (ppc = "try_publish" /\ ppc' # "try_publish") =>
           /\ ppc' = "idle"
           /\ tryResult' = "true"
           /\ pushed' = Append(pushed, pArg)
           /\ _writeIndex' = pNext
           /\ live[pWriteIndex + _padding]
           /\ mem[pWriteIndex + _padding] = pArg

\* C7: try_emplace fails only for a full queue. The step that makes it return
\* false, the one with the acquire load of readIndex, is taken with exactly
\* capacity() elements pending; a call that meets fewer than capacity()
\* pending elements keeps meeting fewer and passes its test; and a call that
\* passed its test returns true with its value stored and published.
C7_TryFailsOnlyWhenFull == [][C7_TryStep]_vars

\* try_emplace has returned false while the consumer is inside pop(): the
\* oldest element is destroyed already, its removal not yet published.
C7_Witness ==
    /\ tryResult = "false"
    /\ ppc = "idle"
    /\ cpc = "pop_publish"
    /\ LiveCount = capacity - 1
    /\ capacity >= 2

\* The two steps of a try_emplace call that returns false.
C8_FailedTryStep ==
    ((ppc = "idle" /\ ppc' = "try_check") \/ (ppc = "try_check" /\ ppc' = "idle")) =>
        /\ UNCHANGED <<_writeIndex, _readIndex, _writeIndexCache, mem, live>>
        /\ UNCHANGED <<pushed, nConstructed, nDestroyed>>

\* The state a failed try_emplace leaves.
C8_AfterFailedTry ==
    (tryResult = "false" /\ ppc = "idle") =>
        /\ _writeIndex = pWriteIndex
        /\ ~live[pWriteIndex + _padding]
        /\ nConstructed = Len(pushed)

\* C8: a failed try_emplace changes nothing observable. Neither step of a
\* call that returns false, the entry and the failing test, changes a cursor,
\* the consumer's cached write index or any slot, and after it writeIndex is
\* what the call loaded and the slot it would have filled holds no element.
C8_FailedTryChangesNothing == []C8_AfterFailedTry /\ [][C8_FailedTryStep]_vars

\* try_emplace has returned false after elements went round the ring, while
\* the consumer holds a pointer to the oldest element.
C8_Witness ==
    /\ tryResult = "false"
    /\ ppc = "idle"
    /\ nPopped >= 1
    /\ capacity >= 2
    /\ cpc = "peeked" /\ cFront # << >>
    /\ _readIndexCache = _readIndex

\* Steps left to the return of try_emplace.
TryRank(pc) == CASE pc = "try_check" -> 3 [] pc = "try_construct" -> 2 [] pc = "try_publish" -> 1 [] OTHER -> 0

\* Steps left to the return of front and of pop.
ConsumerRank(pc) == CASE pc = "pop_destroy" -> 2 [] pc = "pop_publish" -> 1 [] pc = "front_check" -> 1 [] OTHER -> 0

\* A thread inside one of the three operations has a step to take.
C9_CanStep ==
    /\ TryRank(ppc) > 0 =>
           ENABLED <<TryEmplaceCheck \/ TryEmplaceConstruct \/ TryEmplacePublish>>_vars
    /\ ConsumerRank(cpc) > 0 => ENABLED <<FrontCheck \/ PopDestroy \/ PopPublish>>_vars

\* Every step of the thread inside the operation brings the return closer.
C9_StepAdvances ==
    /\ (TryRank(ppc) > 0 /\ <<pvars, _readIndexCache, _writeIndex>>' # <<pvars, _readIndexCache, _writeIndex>>) =>
           TryRank(ppc') < TryRank(ppc)
    /\ (ConsumerRank(cpc) > 0 /\ <<cvars, _writeIndexCache, _readIndex>>' # <<cvars, _writeIndexCache, _readIndex>>) =>
           ConsumerRank(cpc') < ConsumerRank(cpc)

\* C9: try_emplace, front and pop are wait-free. Inside each of them the
\* calling thread always has a step it can take, whatever state the other
\* thread is in, and every step it takes moves it strictly closer to the
\* return: at most three steps for try_emplace, one for front after its
\* entry, two for pop after its entry.
C9_WaitFree == []C9_CanStep /\ [][C9_StepAdvances]_vars

\* try_emplace has returned (false) while the consumer stands still in the
\* middle of pop(), and front() has returned while the producer stands still.
C9_Witness ==
    /\ tryResult = "false"
    /\ ppc = "idle"
    /\ cpc = "pop_destroy"

\* What each step of an emplace call satisfies.
C10_EmplaceStep ==
    /\ (ppc = "emplace_wait" /\ pNext = _readIndex) =>
           /\ ppc' = "emplace_wait"
           /\ UNCHANGED <<_writeIndex, mem, nConstructed, pushed>>
    /\ ppc = "emplace_wait" => ppc' \in {"emplace_wait", "emplace_publish"}
    /\ (ppc = "emplace_wait" /\ ppc' = "emplace_publish") =>
           /\ pNext # _readIndex
           /\ live'[pWriteIndex + _padding]
           /\ mem'[pWriteIndex + _padding] = pArg
    /\ (ppc = "emplace_publish" /\ ppc' # "emplace_publish") =>
           /\ ppc' = "idle"
           /\ pushed' = Append(pushed, pArg)
           /\ _writeIndex' = pNext
           /\ live[pWriteIndex + _padding]
           /\ mem[pWriteIndex + _padding] = pArg

\* A waiting emplace whose queue is not full gets its value published.
C10_EmplaceCompletes ==
    \A v \in 1 .. MaxPush :
        (ppc = "emplace_wait" /\ pArg = v /\ pNext # _readIndex) ~> (ppc = "idle" /\ Len(pushed) >= v)

\* C10: emplace spins exactly while the queue is full and then completes.
\* While the queue is full a waiting emplace stays in its loop and neither
\* constructs nor publishes; it returns only by publishing writeIndex with its
\* value stored; and with both threads scheduled fairly, a waiting emplace
\* whose queue is no longer full stores and publishes its value.
C10_EmplaceSpins == [][C10_EmplaceStep]_vars /\ C10_EmplaceCompletes

\* emplace waits on a full queue, its cached read index being the true one,
\* while the consumer is about to publish a removal.
C10_Witness ==
    /\ ppc = "emplace_wait"
    /\ pNext = _readIndex
    /\ pNext = _readIndexCache
    /\ Pending = capacity
    /\ cpc = "pop_publish"
    /\ capacity >= 2

\* What front() has returned, for as long as the caller makes no pop().
C11_Peeked ==
    (cpc = "peeked" /\ cFront # << >>) =>
        /\ cFront = <<_readIndex + _padding>>
        /\ live[cFront[1]]
        /\ Pending > 0
        /\ mem[cFront[1]] = pushed[nPopped + 1]

\* The steps of front(): the entry and the test with its reload.
C11_FrontStep ==
    /\ (cpc = "front_check" /\ cpc' = "peeked" /\ cFront' = << >>) =>
           /\ cReadIndex = _writeIndexCache
           /\ _readIndex = _writeIndex
           /\ Pending = 0
    /\ ((cpc # "front_check" /\ cpc' = "front_check") \/ (cpc = "front_check" /\ cpc' = "peeked")) =>
           UNCHANGED <<_writeIndex, _readIndex, mem, live, pushed, nPopped, nConstructed, nDestroyed>>

\* C11: peek result. front() returns nullptr only on a step whose reload of
\* writeIndex finds it equal to readIndex, the queue being empty at that
\* moment; otherwise it returns the slot at readIndex, which holds the oldest
\* constructed element not yet removed, and keeps doing so until the caller
\* pops; no step of front() changes a cursor or a slot.
C11_PeekResult == []C11_Peeked /\ [][C11_FrontStep]_vars

\* front() has returned the oldest element on the strength of its cached
\* write index, after earlier removals, while the producer is between the
\* construction and the publication of a newer element.
C11_Witness ==
    /\ phase = "live"
    /\ cpc = "peeked"
    /\ cFront # << >>
    /\ _writeIndexCache # _writeIndex
    /\ nPopped >= 1
    /\ Pending >= 2
    /\ ppc = "emplace_publish"

\* The ring size the constructor is to compute, without any wraparound.
RingSizeWanted(req) ==
    LET atLeastOne == IF req < 1 THEN 1 ELSE req
    IN  IF atLeastOne + 1 > SIZE_MAX - 2 * _padding THEN SIZE_MAX - 2 * _padding ELSE atLeastOne + 1

\* C12: the constructor's capacity arithmetic never wraps. For every argument
\* of the size type, 0 and SIZE_MAX included, the ring has at least
\* min(max(argument, 1) + 1, SIZE_MAX - 2 * _padding) slots (exactly that many
\* unless the allocator hands out more), so at least 2; the ring plus both
\* paddings fits the size type; and capacity() is the ring size minus one.
C12_CtorNeverWraps ==
    phase = "live" =>
        /\ _capacity >= RingSizeWanted(requested)
        /\ _capacity <= RingSizeWanted(requested) + MaxSurplus
        /\ _capacity >= 2
        /\ _capacity + 2 * _padding <= SIZE_MAX
        /\ capacity = _capacity - 1

\* The one argument for which the statement above fails is SIZE_MAX, where
\* _capacity++ wraps to 0: the ring then has no slot at all (beyond what the
\* allocator adds) and capacity() is 0 - 1 in size_t.
C12_WrapsOnlyAtMax ==
    phase = "live" =>
        IF requested = SIZE_MAX
           THEN _capacity <= MaxSurplus /\ capacity = WrapSize(_capacity - 1)
           ELSE C12_CtorNeverWraps

\* While the consumer holds an element returned by front() the queue is not
\* empty, and the assertion of pop() has failed exactly if the program aborted.
C13_Holding ==
    /\ (cpc = "peeked" /\ cFront # << >>) => _writeIndex # _readIndex
    /\ "assertion of pop" \in fault <=> phase = "aborted"

\* The entry of pop(): it goes on exactly if the cursors differ.
C13_PopEntry ==
    /\ (cpc \in {"idle", "peeked"} /\ cpc' = "pop_destroy") =>
           (_writeIndex # _readIndex /\ "assertion of pop" \notin fault' /\ phase' = phase)
    /\ (cpc = "peeked" /\ cFront # << >> /\ cpc' = "pop_destroy") =>
           "assertion of pop" \notin fault'
    /\ (PopWithoutPeek /\ _writeIndex = _readIndex) =>
           ("assertion of pop" \in fault' /\ phase' = "aborted")
    /\ (phase # "aborted" /\ phase' = "aborted") => _writeIndex = _readIndex

\* C13: the assertion of pop(). A pop() called after a front() that returned
\* an element, with no other pop() in between, finds writeIndex different
\* from readIndex in every interleaving, so its assertion holds; a pop()
\* called on an empty queue finds them equal and its assertion fails.
C13_PopAssertion == []C13_Holding /\ [][C13_PopEntry]_vars

\* The program has aborted in a pop() on a queue emptied by earlier pops.
C13_Witness ==
    /\ phase = "aborted"
    /\ "assertion of pop" \in fault
    /\ nPopped >= 1
    /\ Len(pushed) = nPopped

\* The slot the consumer is using: the one it holds a pointer to from
\* front(), or the one its pop() is destroying or has yet to release.
ConsumerSlots ==
    (IF cpc = "peeked" /\ cFront # << >> THEN {cFront[1]} ELSE {})
        \cup (IF cpc \in {"pop_destroy", "pop_publish"} THEN {cReadIndex + _padding} ELSE {})

\* The step of emplace() or try_emplace() that constructs the element.
C14_ConstructStep ==
    (nConstructed' # nConstructed) =>
        /\ ppc \in {"emplace_wait", "try_construct"}
        /\ ~live[pWriteIndex + _padding]
        /\ pWriteIndex + _padding \notin ConsumerSlots
        /\ pWriteIndex = _writeIndex
        /\ live' = [live EXCEPT ![pWriteIndex + _padding] = TRUE]

\* The slot under construction or not yet published is never the consumer's.
C14_Disjoint ==
    /\ "construct over live element" \notin fault
    /\ ppc \in {"try_construct", "emplace_publish", "try_publish"} =>
           pWriteIndex + _padding \notin ConsumerSlots

\* C14: slot exclusivity. With construction, publication of writeIndex,
\* destruction and publication of readIndex as separate steps, the producer
\* only ever constructs into a slot that holds no live element, and never
\* into the slot the consumer holds a pointer to from front() or is
\* destroying.
C14_SlotExclusivity == []C14_Disjoint /\ [][C14_ConstructStep]_vars

\* The producer has constructed into a slot used before, the last one free
\* before the slot that the consumer is destroying.
C14_Witness ==
    /\ ppc \in {"emplace_publish", "try_publish"}
    /\ cpc = "pop_destroy"
    /\ live[cReadIndex + _padding]
    /\ NextIndex(NextIndex(pWriteIndex)) = cReadIndex
    /\ Len(pushed) >= _capacity
    /\ live[pWriteIndex + _padding]

\* Ring index i lies in the cyclic range from readIndex up to, but not
\* including, writeIndex.
Occupied(i) ==
    ((i - _readIndex) % _capacity) < ((_writeIndex - _readIndex) % _capacity)

\* Whether the slot of ring index i is to hold a constructed element.
ExpectLive(i) ==
    IF Occupied(i)
       THEN ~(i = _readIndex /\ cpc = "pop_publish")
       ELSE i = _writeIndex /\ ppc \in {"emplace_publish", "try_publish"}

\* C15: publication order. In every reachable state each slot from readIndex
\* up to but excluding writeIndex, cyclically, holds a constructed element,
\* except the slot at readIndex while a pop() is between its destroy and its
\* store of readIndex; each slot outside that range holds none, except the
\* slot at writeIndex while an insert is between its construction and its
\* store of writeIndex. The padding slots never hold an element.
C15_PublicationOrder ==
    /\ \A i \in 0 .. _capacity - 1 : live[i + _padding] <=> ExpectLive(i)
    /\ \A a \in Addresses : live[a] => a \in _padding .. _padding + _capacity - 1

\* Both exceptions at once, on a ring that has wrapped: the consumer has
\* destroyed the front and the producer has constructed at writeIndex.
C15_Witness ==
    /\ cpc = "pop_publish"
    /\ ppc \in {"emplace_publish", "try_publish"}
    /\ _writeIndex < _readIndex
    /\ ~live[_readIndex + _padding]
    /\ live[_writeIndex + _padding]
    /\ Pending >= 2

\* The cursor after i: i + 1, or 0 from the last index of the ring.
Successor(i) == IF i = _capacity - 1 THEN 0 ELSE i + 1

\* Both cursors are indices of the ring.
C16_InRange ==
    /\ _readIndex \in 0 .. _capacity - 1
    /\ _writeIndex \in 0 .. _capacity - 1

\* A cursor changes only to its successor.
C16_Step ==
    /\ _writeIndex' # _writeIndex => _writeIndex' = Successor(_writeIndex)
    /\ _readIndex' # _readIndex => _readIndex' = Successor(_readIndex)
    /\ _capacity' = _capacity

\* C16: cursor range and step. In every reachable state readIndex and
\* writeIndex are in [0, _capacity), _capacity being the ring size
\* capacity() + 1, and every change of a cursor is a modular increment by
\* one: i to i + 1, or from the last index to 0.
C16_CursorRangeAndStep == []C16_InRange /\ [][C16_Step]_vars

\* Both cursors have wrapped: the read cursor is back at 0 after a whole
\* turn and the write cursor is one past it.
C16_Witness ==
    /\ _readIndex = 0
    /\ nPopped = _capacity
    /\ _writeIndex = 1
    /\ Len(pushed) = _capacity + 1

\* The fields of the queue object and the slots it owns.
Fields == <<_capacity, mem, live, _writeIndex, _readIndex, _writeIndexCache, _readIndexCache>>

\* What each kind of step leaves alone, and who alone changes what.
C17_Frame ==
    /\ Producer => UNCHANGED <<_readIndex, _writeIndexCache, _capacity>>
    /\ Consumer => UNCHANGED <<_writeIndex, _readIndexCache, _capacity>>
    /\ Query => UNCHANGED Fields
    /\ (_writeIndex' # _writeIndex \/ _readIndexCache' # _readIndexCache) =>
           (ppc # "idle" /\ cpc' = cpc /\ qpc' = qpc)
    /\ (_readIndex' # _readIndex \/ _writeIndexCache' # _writeIndexCache) =>
           (cpc # "idle" /\ ppc' = ppc /\ qpc' = qpc)

\* C17: single-writer frame. Every step of emplace/try_emplace leaves
\* readIndex and the consumer's cached write index unchanged, every step of
\* front/pop leaves writeIndex and the producer's cached read index
\* unchanged, and the steps of size() and empty() change no field at all
\* (capacity() is a read of one field with no step of its own).
C17_SingleWriterFrame == [][C17_Frame]_vars

\* All four cursors and caches have moved and a size() call has finished
\* beside an insert in progress.
C17_Witness ==
    /\ qpc = "size_return" /\ qCaller = "consumer"
    /\ ppc = "emplace_publish"
    /\ nPopped >= 1
    /\ _readIndexCache # 0 /\ _writeIndexCache # 0
    /\ _readIndexCache # _readIndex /\ _writeIndexCache # _writeIndex

\* The second load of size() or empty(): the value computed was true at one
\* of the instants since the first load.
C18_QueryStep ==
    /\ (qpc = "size" /\ qpc' = "size_return") => qRet'[1] \in qSeen'
    /\ (qpc = "empty" /\ qpc' = "empty_return") => qRet'[1] \in {n = 0 : n \in qSeen'}
    /\ (qpc \in {"size", "empty"} /\ qCaller = "producer") => _writeIndex' = _writeIndex
    /\ (qpc \in {"size", "empty"} /\ qCaller = "consumer") => _readIndex' = _readIndex

\* What size() or empty() is about to return was true during the call.
C18_Returned ==
    /\ qpc = "size_return" => qRet[1] \in qSeen
    /\ qpc = "empty_return" => qRet[1] \in {n = 0 : n \in qSeen}
    /\ qpc \in {"size", "empty", "size_return", "empty_return"} => qSeen \subseteq 0 .. capacity

\* C18: size() and empty() are exact at an instant. Called by the producer
\* thread or by the consumer thread between its own operations, with the
\* other thread running, size() returns the number of published and not yet
\* removed elements, and empty() whether there are none, as it was at some
\* instant between the start and the end of the call, although the two
\* cursors are read by two loads.
C18_ExactAtAnInstant == []C18_Returned /\ [][C18_QueryStep]_vars

\* A size() that returns a count that is no longer true at its return: the
\* other thread has moved twice between the two loads.
C18_Witness ==
    /\ qpc = "size_return"
    /\ Cardinality(qSeen) >= 3
    /\ qRet[1] # Pending
    /\ _writeIndex < _readIndex

\* The distance from cursor b forward to cursor a on the ring.
Ahead(a, b) == (a - b) % _capacity

\* C19: the cached cursors are conservative. In every reachable state, with
\* A the ring size, (writeIndexCache - readIndex) mod A is at most
\* (writeIndex - readIndex) mod A, and (writeIndex - readIndexCache) mod A is
\* at least (writeIndex - readIndex) mod A: the consumer's cache never shows
\* more elements than are published and the producer's cache never shows
\* more free slots than are free.
C19_CachesConservative ==
    /\ Ahead(_writeIndexCache, _readIndex) <= Ahead(_writeIndex, _readIndex)
    /\ Ahead(_writeIndex, _readIndexCache) >= Ahead(_writeIndex, _readIndex)
    /\ _writeIndexCache \in 0 .. _capacity - 1
    /\ _readIndexCache \in 0 .. _capacity - 1

\* Both caches are behind at once, on a ring that has wrapped.
C19_Witness ==
    /\ Ahead(_writeIndexCache, _readIndex) < Ahead(_writeIndex, _readIndex)
    /\ Ahead(_writeIndex, _readIndexCache) > Ahead(_writeIndex, _readIndex)
    /\ _writeIndex < _readIndex
    /\ _writeIndexCache # 0
    /\ _readIndexCache # 0

\* The values 0, 1, ..., n - 1.
UpTo(n) == [k \in 1 .. n |-> k - 1]

\* The demo: what has been printed, and the slot behind the pointer i.
C20_DemoState ==
    /\ pushed = UpTo(Len(pushed))
    /\ popped = UpTo(Len(popped))
    /\ Len(popped) <= DemoPushes
    /\ Len(popped) = (IF cpc = "demo_read" THEN nPopped - 1 ELSE nPopped)
    /\ cpc \in {"pop_destroy", "pop_publish", "demo_read"} =>
           /\ mem[cFront[1]] = Len(popped)
           /\ ~(ppc \in {"emplace_publish"} /\ pWriteIndex + _padding = cFront[1])
    /\ ppc = "emplace_wait" => pNext # _readIndexCache
    /\ fault \subseteq {"read of no element"}

\* From the pop() to the read of *i nothing writes the slot behind i.
C20_DemoStep ==
    (cpc \in {"pop_destroy", "pop_publish", "demo_read"}) =>
        /\ mem'[cFront[1]] = mem[cFront[1]]
        /\ nConstructed' # nConstructed => pWriteIndex + _padding # cFront[1]
        /\ cpc = "demo_read" /\ cpc' = "idle" => popped' = Append(popped, nPopped - 1)

\* C20: the read after the remove in the demo. With a producer pushing
\* 0 .. 9 into a queue of capacity 10 and a consumer that calls front(),
\* then pop(), and only then reads through the pointer, no producer write to
\* the slot falls between the pop() of that slot and the read of it in any
\* interleaving, and the values read are 0, 1, ..., 9, in this order, each
\* once.
C20_DemoReadAfterRemove == []C20_DemoState /\ [][C20_DemoStep]_vars

\* All ten values have been read, the last one after its pop().
C20_Witness ==
    /\ popped = UpTo(DemoPushes)
    /\ nPopped = DemoPushes
    /\ cpc = "idle"
    /\ "read of no element" \in fault

====
